---- MODULE Spec2Model ----
(***************************************************************************)
(* Model of kantra's analyze command: the label-selector synthesis         *)
(* (getLabelSelector), the container-less run (RunAnalysisContainerless),  *)
(* provider start-up (startProvidersContainerless) and the background      *)
(* dependency task (DependencyOutputContainerless).                        *)
(*                                                                         *)
(* Eight specifications share the variables and the actions:               *)
(*   Spec      the whole container-less run, from ValidateContainerless    *)
(*             to its return or os.Exit(1);                                *)
(*   SpecStart startProvidersContainerless called on any needProviders map *)
(*             (the run itself only ever has the providers builtin, java); *)
(*   SpecDep   DependencyOutputContainerless called on any providers map;  *)
(*   SpecSel   getLabelSelector called on any target and source lists;     *)
(*   SpecCfg   setConfigsContainerless called on any list of configs;      *)
(*   SpecOut   the run from eng.RunRules on, for any list of results;      *)
(*   SpecLive  Spec with the fairness of the Go scheduler;                 *)
(*   SpecRun   RunAnalysis, the run in containers.                         *)
(***************************************************************************)
EXTENDS Integers, Sequences, FiniteSets, TLC

VARIABLES
    mode,                     \* a.mode: "full" or "source-only" (Validate admits no other)
    sources,                  \* a.sources
    targets,                  \* a.targets
    labelSelectors,           \* result of a.getLabelSelector()
    configs,                  \* the provider configs handed to setConfigsContainerless
    absFails,                 \* the working directory is gone: filepath.Abs fails on relative paths
    finalConfigs,             \* the list setConfigsContainerless returned
    analyzeKnownLibraries,    \* the --analyze-known-libraries flag
    args,                     \* container mode: the arguments of the analyzer
    containerRuns,            \* container mode: the containers run so far, with their outcome
    pc,                       \* position of the main flow
    result,                   \* how the run ended: "running", "nil", "err", "exit1"
    settingsFile,             \* settings.json exists in the output directory
    providers,                \* keys of the providers map
    rulesLeft,                \* entries of a.rules not yet parsed
    loadFailed,               \* some LoadRules call returned an error
    needProviders,            \* keys of the needProviders map
    startVisited,             \* needProviders keys the start loop has visited
    additionalBuiltinConfigs, \* list collected by startProvidersContainerless
    returnedConfigs,          \* per provider: the list its ProviderInit returned
    initCalls,                \* per provider: number of ProviderInit calls
    builtinInitArg,           \* the list handed to the builtin ProviderInit
    provState,                \* per provider: Created, Ready, Failed, Stopped
    stopCalls,                \* per provider: number of Stop calls
    startErr,                 \* return value of startProvidersContainerless
    wgCount,                  \* the WaitGroup counter
    wgDone,                   \* number of wg.Done() calls
    depPc,                    \* position of the dependency goroutine
    depVisited,               \* providers the dependency loop has visited
    depAnswer,                \* per provider: what its GetDependencies returns
    depCalls,                 \* per provider: number of GetDependencies calls
    depsFlat,                 \* the depsFlat slice (nil exactly while it is empty)
    depFile,                  \* dependencies.yaml: absent, or the items written
    depIOFailed,              \* yaml.Marshal or os.WriteFile failed in the dep task
    rulesRunning,             \* RunRules has been entered
    rulesReturned,            \* RunRules has returned
    rulesets,                 \* the value RunRules returned
    outputFile,               \* output.yaml: absent, or the results written
    reportDeps                \* what buildStaticReportFile was called with, if it was

vars == << mode, sources, targets, labelSelectors, configs, absFails, finalConfigs,
           analyzeKnownLibraries, args, containerRuns, pc, result, settingsFile,
           providers, rulesLeft, loadFailed, needProviders, startVisited,
           additionalBuiltinConfigs, returnedConfigs, initCalls, builtinInitArg,
           provState, stopCalls, startErr, wgCount, wgDone, depPc, depVisited,
           depAnswer, depCalls, depsFlat, depFile, depIOFailed, rulesRunning,
           rulesReturned, rulesets, outputFile, reportDeps >>

selVars == << mode, sources, targets, labelSelectors >>
mergeVars == << configs, absFails, finalConfigs >>
ctrVars == << analyzeKnownLibraries, args, containerRuns >>
cfgVars == << settingsFile, providers, rulesLeft, loadFailed, needProviders >>
startVars == << startVisited, additionalBuiltinConfigs, returnedConfigs, initCalls,
                builtinInitArg, startErr >>
depVars == << wgCount, wgDone, depPc, depVisited, depAnswer, depCalls, depsFlat,
              depFile, depIOFailed >>
ruleVars == << rulesRunning, rulesReturned, rulesets, outputFile, reportDeps >>

-----------------------------------------------------------------------------
(* Bounds *)

MaxLabels == 2        \* longest --target / --source list
MaxRulePaths == 1     \* longest a.rules list
MaxExtraConfigs == 1  \* longest list one ProviderInit returns
MaxLocations == 2     \* locations one GetDependencies inventory can hold
MaxConfigs == 2       \* longest list of configs handed to setConfigsContainerless
MaxInitConfigs == 1   \* longest InitConfig list of one such config
MaxRulesets == 2      \* longest result list RunRules returns when called on its own

-----------------------------------------------------------------------------
(* Values *)

\* analyzer-lsp's label keys and the default label of getLabelSelector
TargetTechnologyLabel == "konveyor.io/target"
SourceTechnologyLabel == "konveyor.io/source"
defaultLabels == << "discovery" >>

TechValues == { "cloud-readiness", "eap7", "eap8" }

javaProvider == "java"
builtinProvider == "builtin"
\* the two configs createProviderConfigsContainerless builds
RunProviders == { builtinProvider, javaProvider }
\* provider names a caller of the two helpers can put in a map
ProviderNames == { builtinProvider, javaProvider, "nodejs" }

LocationNames == << "a", "b", "c" >>
Locations == { LocationNames[i] : i \in 1..MaxLocations }
ExtraConfigs == { "x", "y" }
RulesetNames == { "r1", "r2" }

\* all sequences over S of length at most n
RECURSIVE SeqsUpTo(_, _)
SeqsUpTo(S, n) ==
    IF n = 0 THEN { << >> }
    ELSE LET shorter == SeqsUpTo(S, n - 1)
         IN  shorter \cup { Append(s, x) : s \in { t \in shorter : Len(t) = n - 1 }, x \in S }

\* all orders in which the elements of S can be listed
RECURSIVE Orderings(_)
Orderings(S) ==
    IF S = {} THEN { << >> }
    ELSE UNION { { << x >> \o s : s \in Orderings(S \ {x}) } : x \in S }

-----------------------------------------------------------------------------
(* Go string comparison: bytewise lexicographic *)

Alphabet == "-./0123456789:=ABCDEFGHIJKLMNOPQRSTUVWXYZ_abcdefghijklmnopqrstuvwxyz"

CharRank(c) == CHOOSE i \in 1..Len(Alphabet) : SubSeq(Alphabet, i, i) = c

RECURSIVE StrLessFrom(_, _, _)
StrLessFrom(s, t, i) ==
    IF i > Len(t) THEN FALSE
    ELSE IF i > Len(s) THEN TRUE
    ELSE LET a == CharRank(SubSeq(s, i, i))
             b == CharRank(SubSeq(t, i, i))
         IN  IF a # b THEN a < b ELSE StrLessFrom(s, t, i + 1)

StrLess(s, t) == StrLessFrom(s, t, 1)

-----------------------------------------------------------------------------
(* getLabelSelector *)

\* strings.Join
RECURSIVE Join(_, _)
Join(elems, sep) ==
    IF Len(elems) = 0 THEN ""
    ELSE IF Len(elems) = 1 THEN elems[1]
    ELSE elems[1] \o sep \o Join(Tail(elems), sep)

\* fmt.Sprintf("%s=%s", key, v) for every v of vals
LabelList(key, vals) == [ i \in 1..Len(vals) |-> key \o "=" \o vals[i] ]

\* variant of getLabelSelector: the OR-groups are not parenthesised
getLabelSelector_Unparenthesised(srcs, tgts) ==
    IF Len(srcs) = 0 /\ Len(tgts) = 0 THEN ""
    ELSE LET tl == LabelList(TargetTechnologyLabel, tgts)
             sl == LabelList(SourceTechnologyLabel, srcs)
             targetExpr == IF Len(tl) > 0 THEN Join(tl, " || ") ELSE ""
             sourceExpr == IF Len(sl) > 0 THEN Join(sl, " || ") ELSE ""
             dflt == Join(defaultLabels, " || ")
         IN  IF targetExpr # ""
             THEN IF sourceExpr # ""
                  THEN "(" \o targetExpr \o " && " \o sourceExpr \o ") || (" \o dflt \o ")"
                  ELSE "(" \o targetExpr \o " && " \o SourceTechnologyLabel
                           \o ") || (" \o dflt \o ")"
             ELSE IF sourceExpr # ""
                  THEN sourceExpr \o " || (" \o dflt \o ")"
                  ELSE ""

getLabelSelector(srcs, tgts) ==
    IF Len(srcs) = 0 /\ Len(tgts) = 0 THEN ""
    ELSE LET tl == LabelList(TargetTechnologyLabel, tgts)
             sl == LabelList(SourceTechnologyLabel, srcs)
             targetExpr == IF Len(tl) > 0 THEN "(" \o Join(tl, " || ") \o ")" ELSE ""
             sourceExpr == IF Len(sl) > 0 THEN "(" \o Join(sl, " || ") \o ")" ELSE ""
             dflt == Join(defaultLabels, " || ")
         IN  IF targetExpr # ""
             THEN IF sourceExpr # ""
                  THEN "(" \o targetExpr \o " && " \o sourceExpr \o ") || (" \o dflt \o ")"
                  ELSE "(" \o targetExpr \o " && " \o SourceTechnologyLabel
                           \o ") || (" \o dflt \o ")"
             ELSE IF sourceExpr # ""
                  THEN sourceExpr \o " || (" \o dflt \o ")"
                  ELSE ""

-----------------------------------------------------------------------------
(* setConfigsContainerless *)

\* the working directory of the process
Cwd == "/w/app"

\* the directories that exist, and a regular file
Dirs == { "/w/app", "/w/lib" }
RegularFiles == { "/w/f" }

\* the location strings a config can carry: empty, an absolute directory, a
\* relative spelling of it, a second directory, a regular file
RawLocations == { "", "/w/app", ".", "/w/lib", "/w/f" }

\* filepath.IsAbs
IsAbs(path) == Len(path) > 0 /\ SubSeq(path, 1, 1) = "/"

\* filepath.Join(wd, path), which cleans its result: "." is wd itself and a
\* leading "./" goes
JoinCwd(path) ==
    IF path = "." THEN Cwd
    ELSE IF Len(path) >= 2 /\ SubSeq(path, 1, 2) = "./"
    THEN Cwd \o "/" \o SubSeq(path, 3, Len(path))
    ELSE Cwd \o "/" \o path

\* filepath.Abs returns an error: only a relative path needs os.Getwd, which
\* fails once the working directory has been removed
AbsErr(path, cwdRemoved) == ~IsAbs(path) /\ cwdRemoved

\* filepath.Abs, when it returns no error
Abs(path) == IF IsAbs(path) THEN path ELSE JoinCwd(path)

\* what os.Stat finds at path: a removed working directory has no name and no
\* entries left, but "." still names it
StatKind(path, cwdRemoved) ==
    IF IsAbs(path)
    THEN IF path \in Dirs /\ ~(cwdRemoved /\ path = Cwd) THEN "dir"
         ELSE IF path \in RegularFiles THEN "file"
         ELSE "none"
    ELSE IF path = "." THEN "dir"
    ELSE IF cwdRemoved THEN "none"
    ELSE IF JoinCwd(path) \in Dirs THEN "dir"
    ELSE IF JoinCwd(path) \in RegularFiles THEN "file"
    ELSE "none"

\* variant of IsExistingDir: regular files pass too
IsExistingDir_AnyFile(path, cwdRemoved) == StatKind(path, cwdRemoved) # "none"

\* line 387: os.Stat succeeds and stat.IsDir()
IsExistingDir(path, cwdRemoved) == StatKind(path, cwdRemoved) = "dir"

\* lines 388-391: the location of the builtin entry
BuiltinLocation(path, getwdFails) ==
    IF AbsErr(path, getwdFails) THEN path ELSE Abs(path)

\* provider.InitConfig; ProviderSpecificConfig is "nil" or stands for a map
InitConfig(loc, psc) == [ Location |-> loc, ProviderSpecificConfig |-> psc ]

\* provider.Config
Config(name, inits, proxy, lines) ==
    [ Name |-> name, InitConfig |-> inits, Proxy |-> proxy, ContextLines |-> lines ]

\* lines 385-400: one InitConfig of the config named name; m holds the map
\* seenBuiltinConfigs and the slice defaultBuiltinConfigs
MergeInitConf(m, name, initConf, getwdFails) ==
    IF initConf.Location \in m.seen THEN m
    ELSE IF initConf.Location = "" THEN m
    ELSE IF ~IsExistingDir(initConf.Location, getwdFails) THEN m
    ELSE LET builtinLocation == BuiltinLocation(initConf.Location, getwdFails)
             builtinConf ==
                 InitConfig(builtinLocation,
                            IF name = "builtin" THEN initConf.ProviderSpecificConfig
                            ELSE "nil")
         IN  [ seen |-> m.seen \cup { builtinLocation },
               defaultBuiltinConfigs |-> Append(m.defaultBuiltinConfigs, builtinConf) ]

\* lines 384-401: the InitConfig list of one config, in order
RECURSIVE MergeInitConfs(_, _, _, _)
MergeInitConfs(m, name, inits, getwdFails) ==
    IF Len(inits) = 0 THEN m
    ELSE MergeInitConfs(MergeInitConf(m, name, Head(inits), getwdFails), name,
                        Tail(inits), getwdFails)

\* lines 380-402: the loop over the configs
RECURSIVE MergeConfigs(_, _, _)
MergeConfigs(m, cfgs, getwdFails) ==
    IF Len(cfgs) = 0 THEN m
    ELSE MergeConfigs(MergeInitConfs(m, Head(cfgs).Name, Head(cfgs).InitConfig,
                                     getwdFails),
                      Tail(cfgs), getwdFails)

\* lines 381-383: the configs appended to finalConfigs inside the loop
RECURSIVE KeptConfigs(_)
KeptConfigs(cfgs) ==
    IF Len(cfgs) = 0 THEN << >>
    ELSE IF Head(cfgs).Name # "builtin" THEN << Head(cfgs) >> \o KeptConfigs(Tail(cfgs))
    ELSE KeptConfigs(Tail(cfgs))

\* variant of setConfigsContainerless: the input's builtin configs are passed
\* through as well
setConfigsContainerless_KeepAll(cfgs, getwdFails) ==
    LET m == MergeConfigs([ seen |-> {}, defaultBuiltinConfigs |-> << >> ], cfgs,
                          getwdFails)
    IN  Append(cfgs, Config("builtin", m.defaultBuiltinConfigs, "nil", 0))

\* lines 375-410
setConfigsContainerless(cfgs, getwdFails) ==
    LET m == MergeConfigs([ seen |-> {}, defaultBuiltinConfigs |-> << >> ], cfgs,
                          getwdFails)
    IN  Append(KeptConfigs(cfgs),
               Config("builtin", m.defaultBuiltinConfigs, "nil", 0))

\* the configs a caller can hand over
CfgNames == { "builtin", "java" }
InputConfigs ==
    UNION { { Config(n, inits, "proxy", 10) :
                inits \in SeqsUpTo({ InitConfig(l, n \o "-config") : l \in RawLocations },
                                   MaxInitConfigs) } :
            n \in CfgNames }

\* lines 313-358: the two configs of the run, for the input directory a.input,
\* which Validate has made absolute
RunInput == "/w/app"
provConfig ==
    << Config("builtin", << InitConfig(RunInput, "nil") >>, "nil", 10),
       Config(javaProvider, << InitConfig(RunInput, "java-config") >>, "nil", 10) >>

-----------------------------------------------------------------------------
(* Stable sorts (sort.SliceStable) *)

\* variant of RulesetLess: no ruleset is less than another
RulesetLess_Never(x, y) == FALSE

\* rulesets[i].Name < rulesets[j].Name
RulesetLess(x, y) == StrLess(x.Name, y.Name)

\* variant of DepsLess: the file location does not count
DepsLess_ProviderOnly(x, y) == StrLess(x.Provider, y.Provider)

\* the less function of the depsFlat sort
DepsLess(x, y) ==
    IF x.Provider = y.Provider
    THEN StrLess(x.FileURI, y.FileURI)
    ELSE StrLess(x.Provider, y.Provider)

\* the less function of the sort of the slice named by key
SliceLess(key, x, y) ==
    IF key = "depsFlat" THEN DepsLess(x, y) ELSE RulesetLess(x, y)

\* insert x behind every element that is not greater than it
RECURSIVE InsertStable(_, _, _)
InsertStable(key, s, x) ==
    IF Len(s) = 0 THEN << x >>
    ELSE IF SliceLess(key, x, s[Len(s)])
         THEN Append(InsertStable(key, SubSeq(s, 1, Len(s) - 1), x), s[Len(s)])
         ELSE Append(s, x)

\* sort.SliceStable of the slice named by key ("depsFlat" or "rulesets")
RECURSIVE SliceStable(_, _)
SliceStable(key, s) ==
    IF Len(s) = 0 THEN << >>
    ELSE InsertStable(key, SliceStable(key, SubSeq(s, 1, Len(s) - 1)), s[Len(s)])

-----------------------------------------------------------------------------
(* Values of the state *)

\* a file of the output directory: absent, or present with the items written
AbsentFile == [ exists |-> FALSE, items |-> << >> ]
WrittenFile(items) == [ exists |-> TRUE, items |-> items ]

\* what a GetDependencies call returns: an error (with a nil map, as Go functions
\* return the zero value beside an error), or an inventory keyed by location
DepError == [ err |-> TRUE, locs |-> {} ]
DepInventory(locs) == [ err |-> FALSE, locs |-> locs ]

\* the item appended for location u of the inventory of provider p; Dependencies
\* stands for the list ds that p returned for u
DepsFlatItem(p, u) ==
    [ Provider |-> "java", FileURI |-> u, Dependencies |-> << p, u >> ]

\* one RulesetResult; Violations stands for its list of violations
RulesetResult(n, v) == [ Name |-> n, Violations |-> v ]

\* what RunRules can return in the run: each ruleset at most once, in any order
RunEngineResults ==
    UNION { { [ i \in 1..Len(o) |-> RulesetResult(o[i], "v1") ] : o \in Orderings(S) } :
            S \in SUBSET RulesetNames }

\* what RunRules can return at all: results in any order, names may repeat
RulesetViolations == { "v1", "v2" }
RulesetSeqs ==
    SeqsUpTo({ RulesetResult(n, v) : n \in RulesetNames, v \in RulesetViolations },
             MaxRulesets)

\* the answers a provider can give to GetDependencies, over the locations locs
DepAnswers(locs) == { DepError } \cup { DepInventory(l) : l \in SUBSET locs }

\* the ways the providers of provs can answer; the others are never asked
DepBehaviours(provs, locs) ==
    { f \in [ ProviderNames -> DepAnswers(locs) ] :
        \A p \in ProviderNames \ provs : f[p] = DepError }

-----------------------------------------------------------------------------
(* Initial states *)

InitIdle ==
    /\ labelSelectors = ""
    /\ finalConfigs = << >>
    /\ args = << >>
    /\ containerRuns = << >>
    /\ result = "running"
    /\ settingsFile = FALSE
    /\ loadFailed = FALSE
    /\ startVisited = {}
    /\ additionalBuiltinConfigs = << >>
    /\ returnedConfigs = [ p \in ProviderNames |-> << >> ]
    /\ initCalls = [ p \in ProviderNames |-> 0 ]
    /\ builtinInitArg = << >>
    /\ stopCalls = [ p \in ProviderNames |-> 0 ]
    /\ startErr = "pending"
    /\ wgDone = 0
    /\ depVisited = {}
    /\ depCalls = [ p \in ProviderNames |-> 0 ]
    /\ depsFlat = << >>
    /\ depFile = AbsentFile
    /\ depIOFailed = FALSE
    /\ rulesRunning = FALSE
    /\ rulesReturned = FALSE
    /\ rulesets = << >>
    /\ outputFile = AbsentFile
    /\ reportDeps = "unbuilt"

\* the run: nothing has happened yet. Each of the two providers answers
\* GetDependencies with an error, an empty inventory or one location; SpecDep
\* covers the larger inventories.
Init ==
    /\ InitIdle
    /\ configs = << >>
    /\ absFails = FALSE
    /\ analyzeKnownLibraries = FALSE
    /\ mode \in { "full", "source-only" }
    /\ sources = << >>
    /\ targets \in SeqsUpTo({ "cloud-readiness" }, 1)
    /\ pc = "validate"
    /\ providers = {}
    /\ rulesLeft \in 0..MaxRulePaths
    /\ needProviders = {}
    /\ provState = [ p \in ProviderNames |-> "Absent" ]
    /\ depAnswer \in DepBehaviours(RunProviders, { LocationNames[1] })
    /\ wgCount = 0
    /\ depPc = "idle"

\* startProvidersContainerless entered with some needProviders map
InitStart ==
    /\ InitIdle
    /\ configs = << >>
    /\ absFails = FALSE
    /\ analyzeKnownLibraries = FALSE
    /\ mode = "full"
    /\ sources = << >>
    /\ targets = << >>
    /\ pc = "startLoop"
    /\ providers \in SUBSET ProviderNames
    /\ rulesLeft = 0
    /\ needProviders = providers
    /\ provState = [ p \in ProviderNames |-> IF p \in providers THEN "Created" ELSE "Absent" ]
    /\ depAnswer = [ p \in ProviderNames |-> DepError ]
    /\ wgCount = 0
    /\ depPc = "idle"

\* DependencyOutputContainerless entered with some providers map, after wg.Add(1)
InitDep ==
    /\ InitIdle
    /\ configs = << >>
    /\ absFails = FALSE
    /\ analyzeKnownLibraries = FALSE
    /\ mode = "full"
    /\ sources = << >>
    /\ targets = << >>
    /\ pc = "caller"
    /\ providers \in SUBSET ProviderNames
    /\ rulesLeft = 0
    /\ needProviders = {}
    /\ provState = [ p \in ProviderNames |-> IF p \in providers THEN "Ready" ELSE "Absent" ]
    /\ depAnswer \in DepBehaviours(providers, Locations)
    /\ wgCount = 1
    /\ depPc = "loop"

\* getLabelSelector about to be called
InitSel ==
    /\ InitIdle
    /\ configs = << >>
    /\ absFails = FALSE
    /\ analyzeKnownLibraries = FALSE
    /\ mode = "full"
    /\ sources \in SeqsUpTo(TechValues, MaxLabels)
    /\ targets \in SeqsUpTo(TechValues, MaxLabels)
    /\ pc = "selector"
    /\ providers = {}
    /\ rulesLeft = 0
    /\ needProviders = {}
    /\ provState = [ p \in ProviderNames |-> "Absent" ]
    /\ depAnswer = [ p \in ProviderNames |-> DepError ]
    /\ wgCount = 0
    /\ depPc = "idle"

\* setConfigsContainerless about to be called
InitCfg ==
    /\ InitIdle
    /\ mode = "full"
    /\ sources = << >>
    /\ targets = << >>
    /\ configs \in SeqsUpTo(InputConfigs, MaxConfigs)
    /\ absFails \in BOOLEAN
    /\ analyzeKnownLibraries = FALSE
    /\ pc = "setConfigs"
    /\ providers = {}
    /\ rulesLeft = 0
    /\ needProviders = {}
    /\ provState = [ p \in ProviderNames |-> "Absent" ]
    /\ depAnswer = [ p \in ProviderNames |-> DepError ]
    /\ wgCount = 0
    /\ depPc = "idle"

\* eng.RunRules about to be called in a source-only run whose rules need both
\* providers
InitOut ==
    /\ mode = "source-only"
    /\ sources = << >>
    /\ targets = << >>
    /\ labelSelectors = getLabelSelector(sources, targets)
    /\ configs = provConfig
    /\ absFails = FALSE
    /\ analyzeKnownLibraries = FALSE
    /\ finalConfigs = setConfigsContainerless(provConfig, absFails)
    /\ args = << >>
    /\ containerRuns = << >>
    /\ pc = "runRules"
    /\ result = "running"
    /\ settingsFile = TRUE
    /\ providers = RunProviders
    /\ rulesLeft = 0
    /\ loadFailed = FALSE
    /\ needProviders = RunProviders
    /\ startVisited = needProviders
    /\ additionalBuiltinConfigs = << >>
    /\ returnedConfigs = [ p \in ProviderNames |-> << >> ]
    /\ initCalls = [ p \in ProviderNames |-> IF p \in needProviders THEN 1 ELSE 0 ]
    /\ builtinInitArg = << >>
    /\ provState = [ p \in ProviderNames |-> IF p \in needProviders THEN "Ready" ELSE "Absent" ]
    /\ stopCalls = [ p \in ProviderNames |-> 0 ]
    /\ startErr = "nil"
    /\ wgCount = 0
    /\ wgDone = 0
    /\ depPc = "idle"
    /\ depVisited = {}
    /\ depAnswer \in DepBehaviours(RunProviders, { LocationNames[1] })
    /\ depCalls = [ p \in ProviderNames |-> 0 ]
    /\ depsFlat = << >>
    /\ depFile = AbsentFile
    /\ depIOFailed = FALSE
    /\ rulesRunning = FALSE
    /\ rulesReturned = FALSE
    /\ rulesets = << >>
    /\ outputFile = AbsentFile
    /\ reportDeps = "unbuilt"

\* RunAnalysis about to be called, after Validate
InitRun ==
    /\ InitIdle
    /\ configs = << >>
    /\ absFails = FALSE
    /\ analyzeKnownLibraries \in BOOLEAN
    /\ mode \in { "full", "source-only" }
    /\ sources \in SeqsUpTo(TechValues, MaxLabels)
    /\ targets \in SeqsUpTo(TechValues, MaxLabels)
    /\ pc = "volumes"
    /\ providers = {}
    /\ rulesLeft \in 0..MaxRulePaths
    /\ needProviders = {}
    /\ provState = [ p \in ProviderNames |-> "Absent" ]
    /\ depAnswer = [ p \in ProviderNames |-> DepError ]
    /\ wgCount = 0
    /\ depPc = "idle"

-----------------------------------------------------------------------------
(* The ways the run ends *)

\* return from RunAnalysisContainerless after the defers of lines 45-58 were
\* registered: os.Remove(settings.json) runs
ReturnDeferred(r) ==
    /\ pc' = "done"
    /\ result' = r
    /\ settingsFile' = FALSE

\* os.Exit(1): the process ends at once, deferred calls do not run
Exit1 ==
    /\ pc' = "done"
    /\ result' = "exit1"
    /\ settingsFile' = settingsFile

-----------------------------------------------------------------------------
(* RunAnalysisContainerless, up to the start of the providers *)

ValidateContainerless ==
    /\ pc = "validate"
    /\ \E ok \in BOOLEAN :
          IF ok THEN pc' = "createLog" /\ result' = result
          ELSE pc' = "done" /\ result' = "err"
    /\ UNCHANGED << selVars, ctrVars, mergeVars, cfgVars, startVars, provState, stopCalls, depVars, ruleVars >>

CreateAnalysisLog ==
    /\ pc = "createLog"
    /\ \E ok \in BOOLEAN :
          IF ok THEN pc' = "selector" /\ result' = result /\ settingsFile' = settingsFile
          ELSE ReturnDeferred("err")
    /\ UNCHANGED << selVars, ctrVars, mergeVars, providers, rulesLeft, loadFailed, needProviders, startVars,
                    provState, stopCalls, depVars, ruleVars >>

GetLabelSelector ==
    /\ pc = "selector"
    /\ labelSelectors' = getLabelSelector(sources, targets)
    /\ pc' = "newSelector"
    /\ UNCHANGED << mode, sources, targets, ctrVars, mergeVars, result, cfgVars, startVars, provState,
                    stopCalls, depVars, ruleVars >>

NewLabelSelector ==
    /\ pc = "newSelector"
    /\ \E ok \in BOOLEAN :
          IF labelSelectors # "" /\ ~ok THEN Exit1
          ELSE pc' = "binMap" /\ result' = result /\ settingsFile' = settingsFile
    /\ UNCHANGED << selVars, ctrVars, mergeVars, providers, rulesLeft, loadFailed, needProviders, startVars,
                    provState, stopCalls, depVars, ruleVars >>

SetBinMapContainerless ==
    /\ pc = "binMap"
    /\ \E ok \in BOOLEAN :
          IF ok THEN pc' = "configs" /\ result' = result /\ settingsFile' = settingsFile
          ELSE Exit1
    /\ UNCHANGED << selVars, ctrVars, mergeVars, providers, rulesLeft, loadFailed, needProviders, startVars,
                    provState, stopCalls, depVars, ruleVars >>

CreateProviderConfigsContainerless ==
    /\ pc = "configs"
    /\ \E ok \in BOOLEAN :
          IF ok
          THEN /\ pc' = "setProviders" /\ result' = result /\ settingsFile' = TRUE
               /\ configs' = provConfig
               /\ finalConfigs' = setConfigsContainerless(provConfig, absFails)
          ELSE /\ Exit1
               /\ UNCHANGED << configs, finalConfigs >>
    /\ UNCHANGED << selVars, ctrVars, absFails, providers, rulesLeft, loadFailed, needProviders, startVars,
                    provState, stopCalls, depVars, ruleVars >>

SetInternalProviders ==
    /\ pc = "setProviders"
    /\ \E ok \in BOOLEAN :
          IF ok
          THEN /\ providers' = { finalConfigs[i].Name : i \in DOMAIN finalConfigs }
               /\ provState' = [ p \in ProviderNames |->
                                   IF p \in providers' THEN "Created" ELSE provState[p] ]
               /\ pc' = "loadRules" /\ result' = result /\ settingsFile' = settingsFile
          ELSE /\ Exit1
               /\ UNCHANGED << providers, provState >>
    /\ UNCHANGED << selVars, ctrVars, mergeVars, rulesLeft, loadFailed, needProviders, startVars,
                    stopCalls, depVars, ruleVars >>

LoadRules ==
    /\ pc = "loadRules"
    /\ rulesLeft > 0
    /\ rulesLeft' = rulesLeft - 1
    /\ \E err \in BOOLEAN, need \in SUBSET providers :
          /\ err => need = {}
          /\ loadFailed' = (loadFailed \/ err)
          /\ needProviders' = needProviders \cup need
    /\ UNCHANGED << selVars, ctrVars, mergeVars, pc, result, settingsFile, providers, startVars, provState,
                    stopCalls, depVars, ruleVars >>

\* setConfigsContainerless, called on its own
SetConfigsContainerless ==
    /\ pc = "setConfigs"
    /\ pc' = "configsSet"
    /\ finalConfigs' = setConfigsContainerless(configs, absFails)
    /\ UNCHANGED << selVars, ctrVars, configs, absFails, result, cfgVars, startVars, provState,
                    stopCalls, depVars, ruleVars >>

StartProvidersCall ==
    /\ pc = "loadRules"
    /\ rulesLeft = 0
    /\ pc' = "startLoop"
    /\ UNCHANGED << selVars, ctrVars, mergeVars, result, cfgVars, startVars, provState, stopCalls, depVars,
                    ruleVars >>

-----------------------------------------------------------------------------
(* startProvidersContainerless *)

\* variant of OnInitError: the error is logged and the loop goes on
OnInitError_Continue ==
    /\ pc' = pc
    /\ result' = result

\* lines 462-465: ProviderInit of a non-builtin provider failed
OnInitError ==
    /\ pc' = "done"
    /\ result' = "exit1"

\* the argument of the builtin ProviderInit, line 474
BuiltinInitConfigs == additionalBuiltinConfigs

\* variant of SkipsBuiltin: no case for builtin in the switch
SkipsBuiltin_Never(name) == FALSE

\* lines 456-457: the loop skips the builtin provider
SkipsBuiltin(name) == name = builtinProvider

\* one iteration of the loop over needProviders (map order: any unvisited key)
StartVisit(name) ==
    /\ pc = "startLoop"
    /\ name \in needProviders \ startVisited
    /\ startVisited' = startVisited \cup { name }
    /\ IF SkipsBuiltin(name)
       THEN UNCHANGED << pc, result, additionalBuiltinConfigs, returnedConfigs, initCalls,
                         provState >>
       ELSE /\ initCalls' = [ initCalls EXCEPT ![name] = @ + 1 ]
            /\ \E ok \in BOOLEAN, confs \in SeqsUpTo(ExtraConfigs, MaxExtraConfigs) :
                  IF ok
                  THEN /\ provState' = [ provState EXCEPT ![name] = "Ready" ]
                       /\ returnedConfigs' = [ returnedConfigs EXCEPT ![name] = confs ]
                       /\ additionalBuiltinConfigs' = additionalBuiltinConfigs \o confs
                       /\ UNCHANGED << pc, result >>
                  ELSE /\ confs = << >>
                       /\ provState' = [ provState EXCEPT ![name] = "Failed" ]
                       /\ OnInitError
                       /\ UNCHANGED << additionalBuiltinConfigs, returnedConfigs >>
    /\ UNCHANGED << selVars, ctrVars, mergeVars, cfgVars, builtinInitArg, startErr, stopCalls, depVars,
                    ruleVars >>

\* lines 473-478: the builtin provider, after the loop
StartBuiltin ==
    /\ pc = "startLoop"
    /\ startVisited = needProviders
    /\ pc' = "startRet"
    /\ IF builtinProvider \in needProviders
       THEN /\ initCalls' = [ initCalls EXCEPT ![builtinProvider] = @ + 1 ]
            /\ builtinInitArg' = BuiltinInitConfigs
            /\ \E ok \in BOOLEAN :
                  IF ok
                  THEN /\ provState' = [ provState EXCEPT ![builtinProvider] = "Ready" ]
                       /\ startErr' = "nil"
                  ELSE /\ provState' = [ provState EXCEPT ![builtinProvider] = "Failed" ]
                       /\ startErr' = "err"
       ELSE /\ startErr' = "nil"
            /\ UNCHANGED << initCalls, builtinInitArg, provState >>
    /\ UNCHANGED << selVars, ctrVars, mergeVars, result, cfgVars, startVisited, additionalBuiltinConfigs,
                    returnedConfigs, stopCalls, depVars, ruleVars >>

-----------------------------------------------------------------------------
(* DependencyOutputContainerless *)

\* variant of WgDone: the task ends without signalling the WaitGroup
WgDone_Skipped ==
    /\ wgCount' = wgCount
    /\ wgDone' = wgDone

\* the deferred wg.Done()
WgDone ==
    /\ wgCount' = wgCount - 1
    /\ wgDone' = wgDone + 1

\* the items appended for one provider's inventory, visited in the order locs
RECURSIVE AppendDeps(_, _, _)
AppendDeps(flat, name, locs) ==
    IF Len(locs) = 0 THEN flat
    ELSE AppendDeps(Append(flat, DepsFlatItem(name, Head(locs))), name, Tail(locs))

\* one iteration of the loop over providers, with the check of lines 501-504
DepVisit(name) ==
    /\ depPc = "loop"
    /\ name \in providers \ depVisited
    /\ depCalls' = [ depCalls EXCEPT ![name] = @ + 1 ]
    /\ \E order \in Orderings(depAnswer[name].locs) :
          depsFlat' = AppendDeps(depsFlat, name, order)
    /\ IF Len(depsFlat') = 0
       THEN /\ depPc' = "done"
            /\ WgDone
            /\ UNCHANGED depVisited
       ELSE /\ depVisited' = depVisited \cup { name }
            /\ UNCHANGED << depPc, wgCount, wgDone >>
    /\ UNCHANGED << selVars, ctrVars, mergeVars, pc, result, cfgVars, startVars, provState, stopCalls,
                    depAnswer, depFile, depIOFailed, ruleVars >>

\* lines 507-529: after the loop, sort, marshal and write
DepWrite ==
    /\ depPc = "loop"
    /\ depVisited = providers
    /\ depPc' = "done"
    /\ WgDone
    /\ \E ok \in BOOLEAN :
          IF ok
          THEN /\ depFile' = WrittenFile(SliceStable("depsFlat", depsFlat))
               /\ UNCHANGED depIOFailed
          ELSE /\ depIOFailed' = TRUE
               /\ UNCHANGED depFile
    /\ UNCHANGED << selVars, ctrVars, mergeVars, pc, result, cfgVars, startVars, provState, stopCalls,
                    depVisited, depAnswer, depCalls, depsFlat, ruleVars >>

-----------------------------------------------------------------------------
(* RunAnalysisContainerless, from the start of the providers on *)

\* lines 134-137
StartProvidersReturn ==
    /\ pc = "startRet"
    /\ IF startErr = "err" THEN Exit1
       ELSE pc' = "spawn" /\ result' = result /\ settingsFile' = settingsFile
    /\ UNCHANGED << selVars, ctrVars, mergeVars, providers, rulesLeft, loadFailed, needProviders, startVars,
                    provState, stopCalls, depVars, ruleVars >>

\* variant of SpawnsDependencyTask: the mode is not looked at
SpawnsDependencyTask_Always == TRUE

\* line 142: is the dependency goroutine started
SpawnsDependencyTask == mode = "full"

\* lines 139-149
SpawnDependencyTask ==
    /\ pc = "spawn"
    /\ pc' = "runRules"
    /\ IF SpawnsDependencyTask
       THEN wgCount' = wgCount + 1 /\ depPc' = "loop"
       ELSE UNCHANGED << wgCount, depPc >>
    /\ UNCHANGED << selVars, ctrVars, mergeVars, result, cfgVars, startVars, provState, stopCalls, wgDone,
                    depVisited, depAnswer, depCalls, depsFlat, depFile, depIOFailed,
                    ruleVars >>

\* line 153, the call
RunRulesCall ==
    /\ pc = "runRules"
    /\ pc' = "inRules"
    /\ rulesRunning' = TRUE
    /\ UNCHANGED << selVars, ctrVars, mergeVars, result, cfgVars, startVars, provState, stopCalls, depVars,
                    rulesReturned, rulesets, outputFile, reportDeps >>

\* line 153, the return
RunRulesReturn(results) ==
    /\ pc = "inRules"
    /\ pc' = "wait"
    /\ rulesReturned' = TRUE
    /\ rulesets' \in results
    /\ UNCHANGED << selVars, ctrVars, mergeVars, result, cfgVars, startVars, provState, stopCalls, depVars,
                    rulesRunning, outputFile, reportDeps >>

\* variant of WgWait: the main flow does not wait for the counter
WgWait_NoBarrier ==
    /\ pc = "wait"
    /\ pc' = "stop"
    /\ UNCHANGED << selVars, ctrVars, mergeVars, result, cfgVars, startVars, provState, stopCalls, depVars,
                    ruleVars >>

\* line 155: wg.Wait() returns once the counter is zero
WgWait ==
    /\ pc = "wait"
    /\ wgCount = 0
    /\ pc' = "stop"
    /\ UNCHANGED << selVars, ctrVars, mergeVars, result, cfgVars, startVars, provState, stopCalls, depVars,
                    ruleVars >>

\* lines 159-163
StopProviders ==
    /\ pc = "stop"
    /\ pc' = "write"
    /\ stopCalls' = [ p \in ProviderNames |->
                        IF p \in needProviders THEN stopCalls[p] + 1 ELSE stopCalls[p] ]
    /\ provState' = [ p \in ProviderNames |->
                        IF p \in needProviders THEN "Stopped" ELSE provState[p] ]
    /\ UNCHANGED << selVars, ctrVars, mergeVars, result, cfgVars, startVars, depVars, ruleVars >>

\* variant of OnWriteError: the failed write is passed over
OnWriteError_Continue ==
    /\ pc' = "json"
    /\ result' = result
    /\ settingsFile' = settingsFile

\* lines 177-179: os.WriteFile of output.yaml failed
OnWriteError == Exit1

\* lines 165-179
WriteOutput ==
    /\ pc = "write"
    /\ \E outcome \in { "ok", "marshalErr", "writeErr" } :
          CASE outcome = "ok" ->
                  /\ outputFile' = WrittenFile(SliceStable("rulesets", rulesets))
                  /\ pc' = "json" /\ result' = result /\ settingsFile' = settingsFile
            [] outcome = "marshalErr" ->
                  /\ ReturnDeferred("err")
                  /\ UNCHANGED outputFile
            [] outcome = "writeErr" ->
                  /\ OnWriteError
                  /\ UNCHANGED outputFile
    /\ UNCHANGED << selVars, ctrVars, mergeVars, providers, rulesLeft, loadFailed, needProviders, startVars,
                    provState, stopCalls, depVars, rulesRunning, rulesReturned, rulesets,
                    reportDeps >>

\* lines 181-185
CreateJSONOutput ==
    /\ pc = "json"
    /\ \E ok \in BOOLEAN :
          IF ok THEN pc' = "report" /\ result' = result /\ settingsFile' = settingsFile
          ELSE ReturnDeferred("err")
    /\ UNCHANGED << selVars, ctrVars, mergeVars, providers, rulesLeft, loadFailed, needProviders, startVars,
                    provState, stopCalls, depVars, ruleVars >>

\* variant of NoDepFile: the stat of dependencies.yaml never reports a missing
\* file
NoDepFile_Never == FALSE

\* lines 585-586: os.Stat(dependencies.yaml) fails with os.ErrNotExist
NoDepFile == ~depFile.exists

\* lines 535-540: the dependency input of the report, by depsErr
ReportInput(depsErr) == IF depsErr THEN "sourceOnly" ELSE "withDeps"

\* lines 187-193 with GenerateStaticReportContainerless (572-608) and
\* buildStaticReportFile (531-558), whose failures end in log.Fatalln
GenerateStaticReportContainerless ==
    /\ pc = "report"
    /\ \E skipStaticReport \in BOOLEAN,
          outcome \in { "ok", "logErr", "statErr", "fatal", "copyErr" } :
          IF skipStaticReport
          THEN /\ outcome = "ok"
               /\ ReturnDeferred("nil")
               /\ UNCHANGED reportDeps
          ELSE CASE outcome \in { "logErr", "statErr" } ->
                       /\ ReturnDeferred("err")
                       /\ UNCHANGED reportDeps
                 [] outcome = "fatal" ->
                       /\ reportDeps' = ReportInput(NoDepFile)
                       /\ Exit1
                 [] outcome = "copyErr" ->
                       /\ reportDeps' = ReportInput(NoDepFile)
                       /\ ReturnDeferred("err")
                 [] outcome = "ok" ->
                       /\ reportDeps' = ReportInput(NoDepFile)
                       /\ ReturnDeferred("nil")
    /\ UNCHANGED << selVars, ctrVars, mergeVars, providers, rulesLeft, loadFailed, needProviders, startVars,
                    provState, stopCalls, depVars, rulesRunning, rulesReturned, rulesets,
                    outputFile >>

-----------------------------------------------------------------------------
(* RunAnalysis: the run in containers *)

\* paths inside the container and the label of line 479
ProviderSettingsMountPath == "/opt/input/config/settings.json"
RulesetPath == "/opt/rulesets"
AnalysisOutputMountPath == "/opt/output/output.yaml"
DepsOutputMountPath == "/opt/output/dependencies.yaml"
DepSourceLabel == "konveyor.io/dep-source"
AnalyzerBin == "/usr/bin/konveyor-analyzer"
AnalyzerDepBin == "/usr/bin/konveyor-analyzer-dep"

\* a return of RunAnalysis: no deferred call touches the state kept here
ReturnFromRunAnalysis(r) ==
    /\ pc' = "done"
    /\ result' = r
    /\ settingsFile' = settingsFile

\* lines 456-470: the volumes; the rule volumes are asked for only if a.rules
\* is not empty
GetVolumes ==
    /\ pc = "volumes"
    /\ \E outcome \in { "ok", "configVolsErr", "ruleVolsErr" } :
          /\ outcome = "ruleVolsErr" => rulesLeft > 0
          /\ IF outcome = "ok"
             THEN pc' = "args" /\ result' = result /\ settingsFile' = settingsFile
             ELSE ReturnFromRunAnalysis("err")
    /\ UNCHANGED << selVars, mergeVars, ctrVars, providers, rulesLeft, loadFailed,
                    needProviders, startVars, provState, stopCalls, depVars, ruleVars >>

\* variant of PassesLabelSelector: the argument is always added
PassesLabelSelector_Always(labelSelector) == TRUE

\* line 482
PassesLabelSelector(labelSelector) == labelSelector # ""

\* lines 472-484
AnalyzerArgs(knownLibraries, labelSelector) ==
    << "--provider-settings=" \o ProviderSettingsMountPath,
       "--rules=" \o RulesetPath \o "/",
       "--output-file=" \o AnalysisOutputMountPath >>
    \o (IF ~knownLibraries
        THEN << "--dep-label-selector=(!" \o DepSourceLabel \o "=open-source)" >>
        ELSE << >>)
    \o (IF PassesLabelSelector(labelSelector)
        THEN << "--label-selector=" \o labelSelector >>
        ELSE << >>)

\* lines 472-484
BuildArgs ==
    /\ pc = "args"
    /\ labelSelectors' = getLabelSelector(sources, targets)
    /\ args' = AnalyzerArgs(analyzeKnownLibraries, labelSelectors')
    /\ pc' = "logs"
    /\ UNCHANGED << mode, sources, targets, mergeVars, analyzeKnownLibraries, containerRuns,
                    result, cfgVars, startVars, provState, stopCalls, depVars, ruleVars >>

\* lines 486-498: analysis.log and dependency.log
CreateLogs ==
    /\ pc = "logs"
    /\ \E outcome \in { "ok", "analysisLogErr", "dependencyLogErr" } :
          IF outcome = "ok"
          THEN pc' = "source" /\ result' = result /\ settingsFile' = settingsFile
          ELSE ReturnFromRunAnalysis("err")
    /\ UNCHANGED << selVars, mergeVars, ctrVars, providers, rulesLeft, loadFailed,
                    needProviders, startVars, provState, stopCalls, depVars, ruleVars >>

\* one NewContainer().Run that returned
ContainerRun(bin, runArgs, err) == [ bin |-> bin, args |-> runArgs, err |-> err ]

\* lines 503-513: the source analysis container, run to its end
RunSourceContainer ==
    /\ pc = "source"
    /\ \E err \in BOOLEAN :
          /\ containerRuns' = Append(containerRuns, ContainerRun(AnalyzerBin, args, err))
          /\ IF err THEN ReturnFromRunAnalysis("err")
             ELSE pc' = "deps" /\ result' = result /\ settingsFile' = settingsFile
    /\ UNCHANGED << selVars, mergeVars, analyzeKnownLibraries, args, providers, rulesLeft,
                    loadFailed, needProviders, startVars, provState, stopCalls, depVars,
                    ruleVars >>

\* lines 515-532: the dependency analysis container, run to its end
RunDependencyContainer ==
    /\ pc = "deps"
    /\ \E err \in BOOLEAN :
          /\ containerRuns' =
                Append(containerRuns,
                       ContainerRun(AnalyzerDepBin,
                                    << "--output-file=" \o DepsOutputMountPath,
                                       "--provider-settings=" \o ProviderSettingsMountPath >>,
                                    err))
          /\ ReturnFromRunAnalysis(IF err THEN "err" ELSE "nil")
    /\ UNCHANGED << selVars, mergeVars, analyzeKnownLibraries, args, providers, rulesLeft,
                    loadFailed, needProviders, startVars, provState, stopCalls, depVars,
                    ruleVars >>

-----------------------------------------------------------------------------
(* Specifications *)

Next ==
    \/ ValidateContainerless
    \/ CreateAnalysisLog
    \/ GetLabelSelector
    \/ NewLabelSelector
    \/ SetBinMapContainerless
    \/ CreateProviderConfigsContainerless
    \/ SetInternalProviders
    \/ LoadRules
    \/ StartProvidersCall
    \/ \E name \in ProviderNames : StartVisit(name)
    \/ StartBuiltin
    \/ StartProvidersReturn
    \/ SpawnDependencyTask
    \/ RunRulesCall
    \/ RunRulesReturn(RunEngineResults)
    \/ WgWait
    \/ StopProviders
    \/ WriteOutput
    \/ CreateJSONOutput
    \/ GenerateStaticReportContainerless
    \/ \E name \in ProviderNames : DepVisit(name)
    \/ DepWrite

Spec == Init /\ [][Next]_vars

\* the steps of the goroutine started at line 148
DependencyTask ==
    \/ \E name \in ProviderNames : DepVisit(name)
    \/ DepWrite

\* the steps of the goroutine that runs RunAnalysisContainerless, from the
\* spawn of the dependency task on
MainFlow ==
    \/ SpawnDependencyTask
    \/ RunRulesCall
    \/ RunRulesReturn(RunEngineResults)
    \/ WgWait
    \/ StopProviders

\* the run under the Go scheduler: a goroutine that can take a step does take
\* one, and every call made by the two goroutines returns
SpecLive == Init /\ [][Next]_vars /\ WF_vars(MainFlow) /\ WF_vars(DependencyTask)

NextStart ==
    \/ \E name \in ProviderNames : StartVisit(name)
    \/ StartBuiltin

SpecStart == InitStart /\ [][NextStart]_vars

NextDep ==
    \/ \E name \in ProviderNames : DepVisit(name)
    \/ DepWrite

SpecDep == InitDep /\ [][NextDep]_vars

NextSel == GetLabelSelector

SpecSel == InitSel /\ [][NextSel]_vars

NextCfg == SetConfigsContainerless

SpecCfg == InitCfg /\ [][NextCfg]_vars

NextOut ==
    \/ RunRulesCall
    \/ RunRulesReturn(RulesetSeqs)
    \/ WgWait
    \/ StopProviders
    \/ WriteOutput
    \/ CreateJSONOutput
    \/ GenerateStaticReportContainerless

SpecOut == InitOut /\ [][NextOut]_vars

NextRun ==
    \/ GetVolumes
    \/ BuildArgs
    \/ CreateLogs
    \/ RunSourceContainer
    \/ RunDependencyContainer

SpecRun == InitRun /\ [][NextRun]_vars

-----------------------------------------------------------------------------
(* Properties *)

\* the dependency goroutine is not running: never started, or finished and signalled
DepTaskOver == depPc \in { "idle", "done" } /\ wgCount = 0

\* the main flow is behind line 149
PastSpawn == pc \in { "runRules", "inRules", "wait", "stop", "write", "json", "report" }

\* the main flow is behind wg.Wait(), line 155
PastBarrier == pc \in { "stop", "write", "json", "report" }

\* the provider's initialization succeeded at some point
ReachedReady(p) == provState[p] \in { "Ready", "Stopped" }

\* the provider has dependency items to contribute
Contributes(p) == ~depAnswer[p].err /\ depAnswer[p].locs # {}

\* C1: with two providers, P1 answering with one location A and P2 failing, a
\* finished dependency task whose marshal and write did not fail has written the
\* file, and the file holds exactly the one item with P1's list for A, whatever
\* the order in which the two were visited.
C1_FailingProviderSkipped ==
    \A p1, p2 \in ProviderNames :
        ( /\ p1 # p2
          /\ providers = { p1, p2 }
          /\ depAnswer[p1] = DepInventory({ LocationNames[1] })
          /\ depAnswer[p2] = DepError
          /\ depPc = "done"
          /\ ~depIOFailed )
        => /\ depFile.exists
           /\ Len(depFile.items) = 1
           /\ depFile.items[1].FileURI = LocationNames[1]
           /\ depFile.items[1].Dependencies = << p1, LocationNames[1] >>

\* C2: once the dependency task has finished without a marshal or write failure,
\* dependencies.yaml exists if and only if some provider contributed an item; in
\* particular it does not exist when nothing was collected, for any number of
\* providers, none included.
C2_FileIffItems ==
    (depPc = "done" /\ ~depIOFailed)
    => (depFile.exists <=> \E p \in providers : Contributes(p))

\* C3: when the run has ended, every provider whose initialization succeeded has
\* been stopped exactly once, and no provider was stopped twice.
C3_ReadyStoppedOnce ==
    /\ \A p \in ProviderNames : stopCalls[p] <= 1
    /\ (pc = "done" /\ result # "running")
       => \A p \in ProviderNames : ReachedReady(p) => stopCalls[p] = 1

\* C4: a provider has been stopped only if RunRules has returned and the
\* dependency goroutine, when one was started, has finished.
C4_StopAfterBarrier ==
    \A p \in ProviderNames :
        stopCalls[p] > 0 => (rulesReturned /\ DepTaskOver)

C4_Witness ==
    /\ \E p \in ProviderNames : stopCalls[p] > 0
    /\ wgDone = 1
    /\ depPc = "done"

\* number of entries of the list s equal to c
CountIn(s, c) == Cardinality({ i \in DOMAIN s : s[i] = c })

\* number of entries equal to c in the lists returned by the providers of P
RECURSIVE ReturnedCount(_, _)
ReturnedCount(P, c) ==
    IF P = {} THEN 0
    ELSE LET p == CHOOSE q \in P : TRUE
         IN  CountIn(returnedConfigs[p], c) + ReturnedCount(P \ { p }, c)

\* C5: when the builtin provider's initialization has been invoked, every other
\* provider of needProviders has been initialized (exactly once, successfully),
\* the list handed to builtin holds exactly the entries those initializations
\* returned, and no provider's initialization is invoked more than once.
C5_FallbackLast ==
    /\ \A p \in ProviderNames : initCalls[p] <= 1
    /\ initCalls[builtinProvider] > 0 =>
          /\ \A p \in needProviders \ { builtinProvider } :
                initCalls[p] = 1 /\ provState[p] = "Ready"
          /\ \A c \in ExtraConfigs :
                CountIn(builtinInitArg, c)
                  = ReturnedCount(needProviders \ { builtinProvider }, c)

C5_Witness ==
    /\ initCalls[builtinProvider] = 1
    /\ Cardinality(needProviders) = 3
    /\ \A p \in needProviders \ { builtinProvider } : Len(returnedConfigs[p]) > 0
    /\ Len(builtinInitArg) = 2

\* C6: once the initialization of a non-builtin provider has failed, the process
\* has exited, builtin was not initialized, neither RunRules nor the dependency
\* task was started and neither output.yaml nor dependencies.yaml was written.
C6_NonFallbackInitFatal ==
    (\E p \in ProviderNames \ { builtinProvider } : provState[p] = "Failed")
    => /\ pc = "done" /\ result = "exit1"
       /\ initCalls[builtinProvider] = 0
       /\ ~rulesRunning
       /\ depPc = "idle"
       /\ \A p \in ProviderNames : depCalls[p] = 0
       /\ ~outputFile.exists
       /\ ~depFile.exists

C6_Witness ==
    /\ provState[javaProvider] = "Failed"
    /\ builtinProvider \in needProviders
    /\ pc = "done"

\* C7: once the initialization of the builtin provider has failed, neither
\* RunRules nor the dependency task is started, and the run ends by returning
\* an error to its caller, not by exiting the process.
C7_FallbackInitReturned ==
    provState[builtinProvider] = "Failed"
    => /\ ~rulesRunning
       /\ depPc = "idle"
       /\ pc = "done" => result = "err"

\* C8, as stated: either artifact exists only when RunRules has returned and the
\* dependency task has finished.
C8_WritesAfterBothTasks ==
    (outputFile.exists \/ depFile.exists) => (rulesReturned /\ DepTaskOver)

\* C8, amended: output.yaml exists only when RunRules has returned and the
\* dependency task has finished; dependencies.yaml is written by the dependency
\* task itself, as its last step, and the main flow is behind wg.Wait() only
\* when that task is over.
C8_OutputAfterBarrier ==
    /\ outputFile.exists => (rulesReturned /\ DepTaskOver)
    /\ depFile.exists => depPc = "done"
    /\ PastBarrier => DepTaskOver

C8_Witness ==
    /\ outputFile.exists
    /\ depFile.exists
    /\ Len(depFile.items) > 0

\* C9: in source-only mode the dependency goroutine is never started, the
\* WaitGroup is never incremented, GetDependencies is never called and
\* dependencies.yaml is not written, while a run that gets behind the output
\* write has written output.yaml; behind line 149 the goroutine has been started
\* exactly when the mode is full.
C9_SourceOnlyNoDepTask ==
    /\ mode = "source-only" =>
          /\ depPc = "idle"
          /\ wgCount = 0 /\ wgDone = 0
          /\ \A p \in ProviderNames : depCalls[p] = 0
          /\ ~depFile.exists
          /\ (pc \in { "json", "report" } \/ result = "nil") => outputFile.exists
    /\ PastSpawn => (depPc # "idle" <=> mode = "full")

C9_Witness ==
    /\ mode = "source-only"
    /\ result = "nil"
    /\ outputFile.exists
    /\ ~depFile.exists

\* the predicates key=v of the values vals, joined by " || "
RECURSIVE C10_OrJoined(_, _)
C10_OrJoined(key, vals) ==
    IF Len(vals) = 1 THEN key \o "=" \o vals[1]
    ELSE C10_OrJoined(key, SubSeq(vals, 1, Len(vals) - 1))
           \o " || " \o key \o "=" \o vals[Len(vals)]

C10_TExpr == "(" \o C10_OrJoined("konveyor.io/target", targets) \o ")"
C10_SExpr == "(" \o C10_OrJoined("konveyor.io/source", sources) \o ")"

C10_EndsWith(s, suffix) ==
    /\ Len(s) >= Len(suffix)
    /\ SubSeq(s, Len(s) - Len(suffix) + 1, Len(s)) = suffix

\* C10: the selector computed from the target list T and the source list S is ""
\* when both are empty, "(TExpr && SExpr) || (discovery)" when both are not,
\* "(TExpr && konveyor.io/source) || (discovery)" when only S is empty and
\* "SExpr || (discovery)" when only T is empty; a non-empty selector ends with
\* "|| (discovery)".
C10_FourCaseGrammar ==
    pc = "newSelector" =>
       /\ (targets = << >> /\ sources = << >>) => labelSelectors = ""
       /\ (targets # << >> /\ sources # << >>) =>
             labelSelectors = "(" \o C10_TExpr \o " && " \o C10_SExpr \o ") || (discovery)"
       /\ (targets # << >> /\ sources = << >>) =>
             labelSelectors = "(" \o C10_TExpr \o " && konveyor.io/source) || (discovery)"
       /\ (targets = << >> /\ sources # << >>) =>
             labelSelectors = C10_SExpr \o " || (discovery)"
       /\ labelSelectors # "" => C10_EndsWith(labelSelectors, "|| (discovery)")
       /\ (targets = << "cloud-readiness" >> /\ sources = << "eap7" >>) =>
             labelSelectors = "((konveyor.io/target=cloud-readiness) && "
                                \o "(konveyor.io/source=eap7)) || (discovery)"

C10_Witness ==
    /\ pc = "newSelector"
    /\ Len(targets) = 2
    /\ sources = << >>
    /\ labelSelectors # ""

\* C11, as stated: for the single target cloud-readiness and no sources the
\* selector is "(target=cloud-readiness && source) || (discovery)", the target
\* predicate not parenthesised.
C11_TargetOnlyBare ==
    (pc = "newSelector" /\ targets = << "cloud-readiness" >> /\ sources = << >>)
    => labelSelectors
         = "(konveyor.io/target=cloud-readiness && konveyor.io/source) || (discovery)"

\* C11, amended: for the single target cloud-readiness and no sources the
\* selector is "((target=cloud-readiness) && source) || (discovery)": the target
\* group keeps its own parentheses.
C11_TargetOnlyParenthesised ==
    (pc = "newSelector" /\ targets = << "cloud-readiness" >> /\ sources = << >>)
    => labelSelectors
         = "((konveyor.io/target=cloud-readiness) && konveyor.io/source) || (discovery)"

C11_Witness ==
    /\ pc = "newSelector"
    /\ targets = << "cloud-readiness" >>
    /\ sources = << >>
    /\ labelSelectors # ""

-----------------------------------------------------------------------------
(* setConfigsContainerless: the merged builtin config *)

\* the InitConfig list of the builtin config that setConfigsContainerless
\* appended last
EmittedBuiltin ==
    IF Len(finalConfigs) = 0 THEN << >> ELSE finalConfigs[Len(finalConfigs)].InitConfig

\* the location strings of the emitted builtin entries
EmittedLocations == { EmittedBuiltin[i].Location : i \in DOMAIN EmittedBuiltin }

\* the InitConfig entries of the input configs, each with its config's name
Referenced ==
    UNION { { [ Name |-> configs[i].Name, Init |-> configs[i].InitConfig[k] ] :
                k \in DOMAIN configs[i].InitConfig } :
            i \in DOMAIN configs }

\* C12: once setConfigsContainerless has returned, no two entries of the merged
\* builtin InitConfig list carry the same location: a directory referenced by
\* several configs, in whatever spelling, yields one entry.
C12_BuiltinLocationsOnce ==
    pc = "configsSet"
    => \A i, j \in DOMAIN EmittedBuiltin :
          EmittedBuiltin[i].Location = EmittedBuiltin[j].Location => i = j

\* the entry names a non-empty location at which os.Stat finds a directory
NamesDirectory(r) ==
    r.Init.Location # "" /\ StatKind(r.Init.Location, absFails) = "dir"

\* the location the merged list holds for a location string: its absolute path,
\* or the string itself where filepath.Abs fails
MergedLocation(l) == IF ~IsAbs(l) /\ absFails THEN l ELSE Abs(l)

\* C13: once setConfigsContainerless has returned, every existing directory
\* that an input builtin config names has an entry in the merged list carrying
\* that builtin config's provider-specific config, wherever the builtin config
\* stands in the input and whoever else names the directory; and an entry whose
\* location no input builtin config names carries none.
C13_BuiltinConfigKept ==
    pc = "configsSet"
    => /\ \A r \in Referenced :
             (r.Name = "builtin" /\ NamesDirectory(r))
             => \E i \in DOMAIN EmittedBuiltin :
                   /\ EmittedBuiltin[i].Location = MergedLocation(r.Init.Location)
                   /\ EmittedBuiltin[i].ProviderSpecificConfig
                        = r.Init.ProviderSpecificConfig
       /\ \A i \in DOMAIN EmittedBuiltin :
             (\A r \in Referenced :
                 r.Name = "builtin"
                 => MergedLocation(r.Init.Location) # EmittedBuiltin[i].Location)
             => EmittedBuiltin[i].ProviderSpecificConfig = "nil"

\* C14, as stated: once setConfigsContainerless has returned, the locations of
\* the merged builtin list are exactly the absolute paths of the referenced
\* locations that are non-empty and name an existing directory.
C14_LocationsAreAbsolutePaths ==
    pc = "configsSet"
    => EmittedLocations
         = { Abs(r.Init.Location) : r \in { q \in Referenced : NamesDirectory(q) } }

\* C14, amended: once setConfigsContainerless has returned, the locations of the
\* merged builtin list are exactly those of the referenced locations that are
\* non-empty and name an existing directory, each as its absolute path, or as
\* the string the config gave where no absolute path can be computed for it;
\* an empty location, a missing path and a regular file never appear.
C14_LocationsOfExistingDirs ==
    pc = "configsSet"
    => EmittedLocations
         = { MergedLocation(r.Init.Location) :
               r \in { q \in Referenced : NamesDirectory(q) } }

\* the input refers to a directory, a regular file and an empty location can
\* stand beside it, and the merged list is not empty
C14_Witness ==
    /\ pc = "configsSet"
    /\ \E r \in Referenced : r.Init.Location = "/w/f"
    /\ \E r \in Referenced : NamesDirectory(r)
    /\ EmittedLocations # {}

\* the config is not the builtin one
IsNotBuiltin(c) == c.Name # "builtin"

\* C15: the list setConfigsContainerless returns is the input's non-builtin
\* configs, unchanged and in input order, followed by exactly one config named
\* builtin, however many builtin configs the input holds.
C15_OthersThenOneBuiltin ==
    pc = "configsSet"
    => /\ Len(finalConfigs) >= 1
       /\ finalConfigs[Len(finalConfigs)].Name = "builtin"
       /\ SubSeq(finalConfigs, 1, Len(finalConfigs) - 1)
            = SelectSeq(configs, IsNotBuiltin)

\* a builtin config ahead of a non-builtin one in the input
C15_Witness ==
    /\ pc = "configsSet"
    /\ Len(configs) = 2
    /\ configs[1].Name = "builtin"
    /\ configs[2].Name = "java"
    /\ Len(finalConfigs) = 2

-----------------------------------------------------------------------------
(* DependencyOutputContainerless: the flattened and sorted items *)

\* the dependency list that provider p returned for location u, as DepsFlatItem
\* records it
ListOf(p, u) == << p, u >>

\* the items of depsFlat holding the list that provider p returned for u
ItemsHolding(p, u) == { i \in DOMAIN depsFlat : depsFlat[i].Dependencies = ListOf(p, u) }

\* C16: every item of the flattened sequence names the provider whose
\* GetDependencies returned its list and the location the list was returned
\* for, and every location of every visited provider's inventory has exactly
\* one item.
C16_ItemsAttributed ==
    /\ \A i \in DOMAIN depsFlat :
          \E p \in providers, u \in Locations :
             /\ depsFlat[i].Dependencies = ListOf(p, u)
             /\ depsFlat[i].Provider = p
             /\ depsFlat[i].FileURI = u
    /\ \A p \in depVisited :
          \A u \in depAnswer[p].locs : Cardinality(ItemsHolding(p, u)) = 1

\* the (provider, location) pair of x is not greater than that of y
PairNotGreater(x, y) ==
    \/ StrLess(x.Provider, y.Provider)
    \/ x.Provider = y.Provider /\ ~StrLess(y.FileURI, x.FileURI)

\* C17: in the sequence written to dependencies.yaml, the (provider, location)
\* pair of every item is not greater than that of the item after it.
C17_SerializedSorted ==
    depFile.exists
    => \A i \in 1..(Len(depFile.items) - 1) :
          PairNotGreater(depFile.items[i], depFile.items[i + 1])

\* the file was written from a sequence that was collected out of order
C17_Witness ==
    /\ depFile.exists
    /\ Len(depsFlat) >= 2
    /\ \E i \in 1..(Len(depsFlat) - 1) : ~PairNotGreater(depsFlat[i], depsFlat[i + 1])
    /\ Len(depFile.items) = Len(depsFlat)

\* one fixed order of the elements of S
ReferenceOrder(S) == CHOOSE o \in Orderings(S) : TRUE

\* lines 487-527 with the providers visited in the order provs and every
\* inventory read in its reference order
RECURSIVE ReferenceRun(_, _)
ReferenceRun(flat, provs) ==
    IF Len(provs) = 0 THEN WrittenFile(SliceStable("depsFlat", flat))
    ELSE LET next == AppendDeps(flat, Head(provs),
                                ReferenceOrder(depAnswer[Head(provs)].locs))
         IN  IF Len(next) = 0 THEN AbsentFile ELSE ReferenceRun(next, Tail(provs))

\* C18: a dependency task that finished without a marshal or write failure
\* leaves the artifact that the reference run leaves for the same providers and
\* the same answers: the same presence and the same item sequence, whatever the
\* order in which the providers were visited and the inventories were read.
C18_SameArtifact ==
    (depPc = "done" /\ ~depIOFailed)
    => depFile = ReferenceRun(<< >>, ReferenceOrder(providers))

\* C19: every call of GetDependencies goes to a provider that is Ready at the
\* time of the call: initialized with success and not stopped.
C19_OnlyReadyAsked ==
    [][\A p \in ProviderNames : depCalls'[p] > depCalls[p] => provState[p] = "Ready"]_vars

-----------------------------------------------------------------------------
(* output.yaml *)

\* C20: the results written to output.yaml are the results RunRules returned,
\* each as often as it was returned and none other, and the name of every
\* written ruleset is not greater than the name of the one after it.
C20_OutputSortedPermutation ==
    outputFile.exists
    => /\ Len(outputFile.items) = Len(rulesets)
       /\ \A i \in DOMAIN rulesets :
             CountIn(outputFile.items, rulesets[i]) = CountIn(rulesets, rulesets[i])
       /\ \A i \in 1..(Len(outputFile.items) - 1) :
             ~StrLess(outputFile.items[i + 1].Name, outputFile.items[i].Name)

\* RunRules returned two results with the greater name first, and output.yaml
\* was written
C20_Witness ==
    /\ outputFile.exists
    /\ Len(rulesets) = 2
    /\ StrLess(rulesets[2].Name, rulesets[1].Name)

\* t holds the same results as s, each as often
SameCollection(s, t) ==
    /\ Len(s) = Len(t)
    /\ \A i \in DOMAIN s : CountIn(t, s[i]) = CountIn(s, s[i])

\* one fixed order in which the engine can return the results of s
ReferenceReturn(s) == CHOOSE t \in RulesetSeqs : SameCollection(s, t)

\* C21: the sequence written to output.yaml is the one written when the engine
\* returns the same collection of results in the reference order, also where
\* two results share a ruleset name; and sorting the written sequence again
\* leaves it as it is.
C21_OrderIndependent ==
    outputFile.exists
    => /\ outputFile.items = SliceStable("rulesets", ReferenceReturn(rulesets))
       /\ SliceStable("rulesets", outputFile.items) = outputFile.items

-----------------------------------------------------------------------------
(* The static report and the ways the run ends *)

\* C22: the report builder is called with the dependency artifact only if
\* dependencies.yaml exists and without it only if the file does not exist; and
\* report generation is reached, and the builder called, only when the barrier
\* has been passed (RunRules returned, the dependency task is over) and
\* output.yaml has been written.
C22_ReportInputFollowsFile ==
    /\ reportDeps = "withDeps" => depFile.exists
    /\ reportDeps = "sourceOnly" => ~depFile.exists
    /\ (pc = "report" \/ reportDeps # "unbuilt")
       => (rulesReturned /\ DepTaskOver /\ wgCount = 0 /\ outputFile.exists)

\* a full run whose dependency task left no file built its report without
\* dependency input
C22_Witness ==
    /\ mode = "full"
    /\ depPc = "done"
    /\ ~depFile.exists
    /\ reportDeps = "sourceOnly"

\* C23: a run that returned nil has output.yaml on disk, and its dependency
\* task did not fail to marshal or write a non-empty dependency sequence.
C23_NoSuccessWithoutArtifacts ==
    result = "nil"
    => /\ outputFile.exists
       /\ ~(depIOFailed /\ Len(depsFlat) > 0)

\* C24: when RunAnalysisContainerless has returned nil, RunRules has returned,
\* output.yaml exists and holds exactly the results RunRules returned, the name
\* of each not greater than the name of the next.
C24_SuccessHasSortedOutput ==
    result = "nil"
    => /\ rulesReturned
       /\ outputFile.exists
       /\ SameCollection(rulesets, outputFile.items)
       /\ \A i \in 1..(Len(outputFile.items) - 1) :
             ~StrLess(outputFile.items[i + 1].Name, outputFile.items[i].Name)

\* the run returned nil after RunRules returned two results with the greater
\* name first
C24_Witness ==
    /\ pc = "done"
    /\ result = "nil"
    /\ Len(rulesets) = 2
    /\ StrLess(rulesets[2].Name, rulesets[1].Name)

\* C25: once LoadRules has failed for a rules path, the run goes no further
\* than the loading of the rules and does not return nil: it is not continued
\* to the start of the providers and the evaluation of the rules.
C25_LoadFailureEndsRun ==
    loadFailed => (pc \in { "loadRules", "done" } /\ result # "nil")

\* C27: when the run has ended after settings.json was written, by return or by
\* a fatal exit, settings.json is no longer there.
C27_SettingsRemovedAtEnd ==
    pc = "done" => ~settingsFile

\* C26: the WaitGroup counter never drops below zero and the dependency task
\* signals it at most once, exactly once when the task has ended on whatever
\* path; the main flow is behind wg.Wait() only when the task is over; and a
\* run that has started rule evaluation gets to the end of provider shutdown.
C26_BarrierReleased ==
    /\ [](/\ wgCount >= 0
          /\ wgDone <= 1
          /\ (depPc = "idle" => wgDone = 0)
          /\ (depPc = "done" => wgDone = 1)
          /\ (PastBarrier => DepTaskOver))
    /\ ((pc = "runRules") ~> (pc = "write"))

\* the providers were shut down after a dependency task that returned early
\* from its loop
C26_Witness ==
    /\ pc = "write"
    /\ mode = "full"
    /\ depPc = "done"
    /\ depVisited # providers
    /\ wgDone = 1

-----------------------------------------------------------------------------
(* RunAnalysis *)

\* the argument is a --label-selector argument
IsLabelSelectorArg(a) == Len(a) >= 17 /\ SubSeq(a, 1, 17) = "--label-selector="

\* C28: the dependency analysis container is run only as the second container,
\* after a source analysis container that returned no error; when the source
\* analysis container returned an error, RunAnalysis has returned an error and
\* no other container was run; and the analyzer is given a --label-selector
\* argument, holding what getLabelSelector returns, exactly when that is not
\* the empty string.
C28_DepAfterSourceSuccess ==
    /\ \A i \in DOMAIN containerRuns :
          containerRuns[i].bin = AnalyzerDepBin
          => /\ i = 2
             /\ containerRuns[1].bin = AnalyzerBin
             /\ ~containerRuns[1].err
    /\ (Len(containerRuns) >= 1 /\ containerRuns[1].err)
       => (pc = "done" /\ result = "err" /\ Len(containerRuns) = 1)
    /\ \A i \in DOMAIN containerRuns :
          containerRuns[i].bin = AnalyzerBin
          => LET sel == getLabelSelector(sources, targets)
                 given == { k \in DOMAIN containerRuns[i].args :
                              IsLabelSelectorArg(containerRuns[i].args[k]) }
             IN  IF sel = "" THEN given = {}
                 ELSE /\ Cardinality(given) = 1
                      /\ \A k \in given :
                            containerRuns[i].args[k] = "--label-selector=" \o sel

\* both containers were run, the analyzer with a label selector
C28_Witness ==
    /\ Len(containerRuns) = 2
    /\ labelSelectors # ""
    /\ containerRuns[2].bin = AnalyzerDepBin

====
